---- MODULE Spec2Model ----
(***************************************************************************)
(* Smart Interview Bot (src/interview.py): the interview session of        *)
(* SmartInterviewApp (question list, current slide, stored answers and     *)
(* scores, the answer boxes of the slides, the summary) and the keyword    *)
(* scoring function evaluate_answer.                                       *)
(*                                                                         *)
(* Python strings are sequences of one-character strings; the code's       *)
(* 0-based list index i is position i + 1 of the TLA+ sequence.            *)
(***************************************************************************)
EXTENDS Integers, Sequences, FiniteSets, TLC

VARIABLES
    questions,      \* self.questions: sequence of <<section, question>>, the question
                    \* being the bank's dict itself, held as <<bank, position>>
    current_idx,    \* self.current_idx (0-based; len(slides) is the summary)
    answers,        \* self.answers
    scores,         \* self.scores
    txt,            \* slide.txt of every QuestionSlide: what the user typed
    fb_var,         \* slide.fb_var of every QuestionSlide
    hint_var,       \* slide.hint_var of every QuestionSlide
    summary_text,   \* text of summary_slide.lbl_sub
    lifted,         \* the slide on top of the stacking order
    progress_var,   \* self.progress_var, as the fraction <<numerator, denominator>>
    btn_prev,       \* state of the Previous button
    btn_next,       \* state of the Next button
    event,          \* history: the last callback run and the record it found
    edits,          \* history: number of edits of an answer box so far
    ev_answer,      \* evaluate_answer called on its own: the answer argument
    ev_keywords,    \* ... the keywords argument
    ev_result,      \* ... and what it returned
    cfg_num_tech,   \* the value NUM_TECH is set to
    cfg_num_hr,     \* the value NUM_HR is set to
    sampled_tech,   \* tech_sample of _prepare_questions
    sampled_hr,     \* hr_sample of _prepare_questions
    init_pc         \* where __init__ stands: "prepare" before _prepare_questions,
                    \* "prepared" after it, "ValueError" when it raised, "running"
                    \* once the window is built

app_vars == <<questions, current_idx, answers, scores, txt, fb_var, hint_var,
              summary_text, lifted, progress_var, btn_prev, btn_next>>
ev_vars == <<ev_answer, ev_keywords, ev_result>>
prep_vars == <<cfg_num_tech, cfg_num_hr, sampled_tech, sampled_hr, init_pc>>
vars == <<app_vars, event, edits, ev_vars, prep_vars>>

-----------------------------------------------------------------------------
(* Bounds of the model *)

MaxEdits == 2       \* edits of answer boxes in one session
MaxAnsLen == 3      \* length of the answer given to evaluate_answer on its own
MaxKeywords == 2    \* length of the keyword list given to evaluate_answer on its own
MaxRequested == 4   \* largest value NUM_TECH and NUM_HR are set to

-----------------------------------------------------------------------------
(* Python str operations used by the code *)

UPPER == <<"A", "B", "C", "D", "E", "F", "G", "H", "I", "J", "K", "L", "M",
           "N", "O", "P", "Q", "R", "S", "T", "U", "V", "W", "X", "Y", "Z">>
LOWER == <<"a", "b", "c", "d", "e", "f", "g", "h", "i", "j", "k", "l", "m",
           "n", "o", "p", "q", "r", "s", "t", "u", "v", "w", "x", "y", "z">>
WHITESPACE == {" ", "\n", "\t", "\r"}

\* one character of str.lower()
UPPER_SET == { UPPER[i] : i \in 1..Len(UPPER) }
LOWER_OF == [c \in UPPER_SET |-> LOWER[CHOOSE i \in 1..Len(UPPER) : UPPER[i] = c]]

lower_char(c) == IF c \in UPPER_SET THEN LOWER_OF[c] ELSE c

\* str.lower()
RECURSIVE str_lower(_)
str_lower(s) ==
    IF s = <<>> THEN <<>> ELSE <<lower_char(Head(s))>> \o str_lower(Tail(s))

\* sub in s (Python substring test; the empty string is in every string)
str_in(sub, s) ==
    \E i \in 0..(Len(s) - Len(sub)) : \A j \in 1..Len(sub) : s[i + j] = sub[j]

\* str.lstrip() / str.rstrip() / str.strip()
RECURSIVE str_lstrip(_)
str_lstrip(s) ==
    IF s # <<>> /\ Head(s) \in WHITESPACE THEN str_lstrip(Tail(s)) ELSE s

RECURSIVE str_rstrip(_)
str_rstrip(s) ==
    IF s # <<>> /\ s[Len(s)] \in WHITESPACE
    THEN str_rstrip(SubSeq(s, 1, Len(s) - 1))
    ELSE s

str_strip(s) == str_rstrip(str_lstrip(s))

-----------------------------------------------------------------------------
(* Question bank *)

TECHNICAL_QUESTIONS ==
    << [q |-> "What is the difference between list and tuple in Python?",
        keywords |-> << <<"m", "u", "t", "a", "b", "l", "e">>,
                        <<"i", "m", "m", "u", "t", "a", "b", "l", "e">> >>],
       [q |-> "Explain the concept of inheritance in OOP.",
        keywords |-> << <<"i", "n", "h", "e", "r", "i", "t", "a", "n", "c", "e">>,
                        <<"b", "a", "s", "e", " ", "c", "l", "a", "s", "s">>,
                        <<"d", "e", "r", "i", "v", "e", "d">>,
                        <<"s", "u", "b", "c", "l", "a", "s", "s">> >>],
       [q |-> "What is the time complexity of binary search?",
        keywords |-> << <<"l", "o", "g">>,
                        <<"l", "o", "g", "a", "r", "i", "t", "h", "m", "i", "c">>,
                        <<"O", "(", "l", "o", "g", " ", "n", ")">> >>] >>

HR_QUESTIONS ==
    << [q |-> "Tell me about yourself.",
        keywords |-> << <<"s", "t", "u", "d", "e", "n", "t">>,
                        <<"e", "x", "p", "e", "r", "i", "e", "n", "c", "e">>,
                        <<"p", "r", "o", "j", "e", "c", "t">>,
                        <<"g", "o", "a", "l">> >>],
       [q |-> "What are your strengths and weaknesses?",
        keywords |-> << <<"s", "t", "r", "e", "n", "g", "t", "h">>,
                        <<"w", "e", "a", "k", "n", "e", "s", "s">>,
                        <<"l", "e", "a", "r", "n", "i", "n", "g">> >>],
       [q |-> "Where do you see yourself in 5 years?",
        keywords |-> << <<"f", "u", "t", "u", "r", "e">>,
                        <<"g", "o", "a", "l">>,
                        <<"c", "a", "r", "e", "e", "r">> >>] >>

NUM_TECH == 3
NUM_HR == 2

-----------------------------------------------------------------------------
(* evaluate_answer *)

\* the three feedback strings (the dash of the source is written -)
FB_NEEDS == "Needs improvement - missing important points."
FB_GOOD == "Good - some important points present, add more details."
FB_EXCELLENT == "Excellent - covered expected points!"

\* mutant: the loop tests "kw in ans", the keyword not lowercased
RECURSIVE match_loop_kw_not_lowered(_, _, _, _)
match_loop_kw_not_lowered(ans, keywords, matched, matched_words) ==
    IF keywords = <<>>
    THEN <<matched, matched_words>>
    ELSE LET kw == Head(keywords) IN
         IF str_in(kw, ans)
         THEN match_loop_kw_not_lowered(ans, Tail(keywords), matched + 1,
                                        Append(matched_words, kw))
         ELSE match_loop_kw_not_lowered(ans, Tail(keywords), matched, matched_words)

\* mutant: the loop tests "ans in kw.lower()", the operands of "in" swapped
RECURSIVE match_loop_operands_swapped(_, _, _, _)
match_loop_operands_swapped(ans, keywords, matched, matched_words) ==
    IF keywords = <<>>
    THEN <<matched, matched_words>>
    ELSE LET kw == Head(keywords) IN
         IF str_in(ans, str_lower(kw))
         THEN match_loop_operands_swapped(ans, Tail(keywords), matched + 1,
                                          Append(matched_words, kw))
         ELSE match_loop_operands_swapped(ans, Tail(keywords), matched, matched_words)

\* "for kw in keywords": the loop state is <<matched, matched_words>>
RECURSIVE match_loop(_, _, _, _)
match_loop(ans, keywords, matched, matched_words) ==
    IF keywords = <<>>
    THEN <<matched, matched_words>>
    ELSE LET kw == Head(keywords) IN
         IF str_in(str_lower(kw), ans)
         THEN match_loop(ans, Tail(keywords), matched + 1, Append(matched_words, kw))
         ELSE match_loop(ans, Tail(keywords), matched, matched_words)

\* mutant: the branch for all keywords matched is tested first
feedback_of_full_first(matched, keywords) ==
    IF matched = Len(keywords) THEN FB_EXCELLENT
    ELSE IF matched = 0 THEN FB_NEEDS
    ELSE FB_GOOD

\* the if / elif / else that picks the feedback string
feedback_of(matched, keywords) ==
    IF matched = 0 THEN FB_NEEDS
    ELSE IF matched < Len(keywords) THEN FB_GOOD
    ELSE FB_EXCELLENT

\* returns (matched, fb, matched_words)
evaluate_answer(answer, keywords) ==
    LET ans == str_lower(answer)
        r == match_loop(ans, keywords, 0, <<>>)
    IN  <<r[1], feedback_of(r[1], keywords), r[2]>>

-----------------------------------------------------------------------------
(* QuestionSlide and the question list *)

\* Text.get("1.0", tk.END): the typed text followed by the newline Tk appends
text_get(typed) == typed \o <<"\n">>

\* QuestionSlide.get_answer of the slide with 0-based index i
get_answer(i) == str_strip(text_get(txt[i + 1]))

\* len(self.slides): _build_slides makes one QuestionSlide per question
num_slides == Len(questions)

\* the dict a list element refers to
qdata(ref) ==
    IF ref[1] = "TECHNICAL_QUESTIONS"
    THEN TECHNICAL_QUESTIONS[ref[2]] ELSE HR_QUESTIONS[ref[2]]

\* self.slides[i].question_data['keywords']
slide_keywords(i) == qdata(questions[i + 1][2]).keywords

\* ", ".join(words)
RECURSIVE str_join(_, _)
str_join(sep, words) ==
    IF words = <<>> THEN <<>>
    ELSE IF Len(words) = 1 THEN Head(words)
    ELSE Head(words) \o sep \o str_join(sep, Tail(words))

\* mutant: the sample size is NUM itself, not min(NUM, len(bank))
sample_size_unclamped(num, bank) == num

\* min(num, len(bank)), the sample size asked of random.sample
sample_size(num, bank) == IF num < Len(bank) THEN num ELSE Len(bank)

\* random.sample(bank, k): every sequence of k distinct elements of the bank
\* named name, which holds n questions
random_sample(name, n, k) ==
    { [i \in 1..k |-> <<name, p[i]>>] :
        p \in { f \in [1..k -> 1..n] :
                  \A i, j \in 1..k : i # j => f[i] # f[j] } }

\* mutant: the loop runs range(min(len(tech_sample), len(hr_sample)))
RECURSIVE interleave_loop_min_rounds(_, _, _, _)
interleave_loop_min_rounds(tech_sample, hr_sample, i, combined) ==
    LET rounds == IF Len(tech_sample) < Len(hr_sample)
                  THEN Len(tech_sample) ELSE Len(hr_sample)
        with_tech == IF i < Len(tech_sample)
                     THEN Append(combined, <<"Technical", tech_sample[i + 1]>>)
                     ELSE combined
        with_hr == IF i < Len(hr_sample)
                   THEN Append(with_tech, <<"HR", hr_sample[i + 1]>>)
                   ELSE with_tech
    IN  IF i >= rounds THEN combined
        ELSE interleave_loop_min_rounds(tech_sample, hr_sample, i + 1, with_hr)

\* "for i in range(max(len(tech_sample), len(hr_sample)))" from round i on
RECURSIVE interleave_loop(_, _, _, _)
interleave_loop(tech_sample, hr_sample, i, combined) ==
    LET rounds == IF Len(tech_sample) > Len(hr_sample)
                  THEN Len(tech_sample) ELSE Len(hr_sample)
        with_tech == IF i < Len(tech_sample)
                     THEN Append(combined, <<"Technical", tech_sample[i + 1]>>)
                     ELSE combined
        with_hr == IF i < Len(hr_sample)
                   THEN Append(with_tech, <<"HR", hr_sample[i + 1]>>)
                   ELSE with_tech
    IN  IF i >= rounds THEN combined
        ELSE interleave_loop(tech_sample, hr_sample, i + 1, with_hr)

\* the interleaving loop of _prepare_questions over the samples given
interleaved(tech_samples, hr_samples) ==
    { interleave_loop(tech_sample, hr_sample, 0, <<>>) :
        tech_sample \in tech_samples, hr_sample \in hr_samples }

\* the lists _prepare_questions can store in self.questions
prepare_questions(num_tech, num_hr) ==
    interleaved(random_sample("TECHNICAL_QUESTIONS", Len(TECHNICAL_QUESTIONS),
                              sample_size(num_tech, TECHNICAL_QUESTIONS)),
                random_sample("HR_QUESTIONS", Len(HR_QUESTIONS),
                              sample_size(num_hr, HR_QUESTIONS)))

-----------------------------------------------------------------------------
(* _show_slide and _show_summary *)

NORMAL == "normal"
DISABLED == "disabled"

\* the slide lifted by _show_slide(idx)
lifted_slide(idx) ==
    IF idx < num_slides THEN <<"question", idx>> ELSE <<"summary", idx>>

\* mutant: the percentage is computed from self.current_idx, which _show_slide
\* assigns only in its last line
percent_of_stale(idx) == <<current_idx * 100, num_slides>>

\* percent = (idx / len(self.slides)) * 100, kept exact as numerator, denominator
percent_of(idx) == <<idx * 100, num_slides>>

show_slide(idx) ==
    /\ lifted' = lifted_slide(idx)
    /\ progress_var' = percent_of(idx)
    /\ btn_prev' = (IF idx > 0 THEN NORMAL ELSE DISABLED)
    /\ btn_next' = (IF idx < num_slides THEN NORMAL ELSE DISABLED)
    /\ current_idx' = idx

NO_ANSWER == <<"(", "N", "o", " ", "a", "n", "s", "w", "e", "r", ")">>

\* sum(self.scores), sum(len(q[1]['keywords']) ...)
RECURSIVE seq_sum(_)
seq_sum(s) == IF s = <<>> THEN 0 ELSE Head(s) + seq_sum(Tail(s))

\* mutant: "section_wise[sect] = {'score': 0, 'possible': 0}" in place of
\* setdefault, so every question starts its section's tally afresh
RECURSIVE section_loop_resetting(_, _, _)
section_loop_resetting(sc, i, section_wise) ==
    IF i >= Len(questions) THEN section_wise
    ELSE LET sect == questions[i + 1][1]
             possible == Len(qdata(questions[i + 1][2]).keywords)
             seen == \E k \in 1..Len(section_wise) : section_wise[k].sect = sect
             with_default ==
                 IF seen THEN section_wise
                 ELSE Append(section_wise, [sect |-> sect, score |-> 0, possible |-> 0])
             added == [k \in 1..Len(with_default) |->
                         IF with_default[k].sect = sect
                         THEN [sect |-> sect,
                               score |-> sc[i + 1],
                               possible |-> possible]
                         ELSE with_default[k]]
         IN  section_loop_resetting(sc, i + 1, added)

\* section_wise after the questions with index < i were added: a sequence of
\* [sect, score, possible] in the order the sections were first seen
RECURSIVE section_loop(_, _, _)
section_loop(sc, i, section_wise) ==
    IF i >= Len(questions) THEN section_wise
    ELSE LET sect == questions[i + 1][1]
             possible == Len(qdata(questions[i + 1][2]).keywords)
             seen == \E k \in 1..Len(section_wise) : section_wise[k].sect = sect
             with_default ==
                 IF seen THEN section_wise
                 ELSE Append(section_wise, [sect |-> sect, score |-> 0, possible |-> 0])
             added == [k \in 1..Len(with_default) |->
                         IF with_default[k].sect = sect
                         THEN [sect |-> sect,
                               score |-> with_default[k].score + sc[i + 1],
                               possible |-> with_default[k].possible + possible]
                         ELSE with_default[k]]
         IN  section_loop(sc, i + 1, added)

\* the summary text built by _show_summary from the answers and scores given
build_summary(ans_list, sc) ==
    [kind |-> "report",
     total_score |-> seq_sum(sc),
     total_keywords |-> seq_sum([i \in 1..Len(questions) |->
                                    Len(qdata(questions[i][2]).keywords)]),
     section_wise |-> section_loop(sc, 0, <<>>),
     detail |-> [i \in 1..Len(questions) |->
                    [sect |-> questions[i][1],
                     q |-> questions[i][2],
                     ans |-> IF str_strip(ans_list[i]) # <<>>
                             THEN str_strip(ans_list[i]) ELSE NO_ANSWER,
                     matched |-> sc[i],
                     possible |-> Len(qdata(questions[i][2]).keywords)]]]

\* the text the summary slide is built with
SUMMARY_PLACEHOLDER == [kind |-> "placeholder"]

show_summary(ans_list, sc) ==
    /\ summary_text' = build_summary(ans_list, sc)
    /\ show_slide(num_slides)

-----------------------------------------------------------------------------
(* The callbacks of the footer buttons *)

\* the hint evaluate_current sets
hint_of(matched_words) ==
    IF matched_words # <<>>
    THEN [label |-> "Matched keywords: ", words |-> str_join(<<",", " ">>, matched_words)]
    ELSE [label |-> "", words |-> <<>>]

\* mutant: the score found is added to the score stored
evaluated_accumulating ==
    IF current_idx >= num_slides
    THEN [answers |-> answers, scores |-> scores,
          fb_var |-> fb_var, hint_var |-> hint_var]
    ELSE LET ans == get_answer(current_idx)
             r == evaluate_answer(ans, slide_keywords(current_idx))
         IN  [answers |-> [answers EXCEPT ![current_idx + 1] = ans],
              scores |-> [scores EXCEPT ![current_idx + 1] = @ + r[1]],
              fb_var |-> [fb_var EXCEPT ![current_idx + 1] = r[2]],
              hint_var |-> [hint_var EXCEPT ![current_idx + 1] = hint_of(r[3])]]

\* mutant: "if ans: self.answers[self.current_idx] = ans", an empty answer is
\* scored and not stored
evaluated_empty_not_stored ==
    IF current_idx >= num_slides
    THEN [answers |-> answers, scores |-> scores,
          fb_var |-> fb_var, hint_var |-> hint_var]
    ELSE LET ans == get_answer(current_idx)
             r == evaluate_answer(ans, slide_keywords(current_idx))
         IN  [answers |-> IF ans # <<>>
                          THEN [answers EXCEPT ![current_idx + 1] = ans]
                          ELSE answers,
              scores |-> [scores EXCEPT ![current_idx + 1] = r[1]],
              fb_var |-> [fb_var EXCEPT ![current_idx + 1] = r[2]],
              hint_var |-> [hint_var EXCEPT ![current_idx + 1] = hint_of(r[3])]]

\* what evaluate_current leaves in answers, scores and the slide's labels
\* (the dialog it then shows is modal and changes nothing)
evaluated ==
    IF current_idx >= num_slides
    THEN [answers |-> answers, scores |-> scores,
          fb_var |-> fb_var, hint_var |-> hint_var]
    ELSE LET ans == get_answer(current_idx)
             r == evaluate_answer(ans, slide_keywords(current_idx))
         IN  [answers |-> [answers EXCEPT ![current_idx + 1] = ans],
              scores |-> [scores EXCEPT ![current_idx + 1] = r[1]],
              fb_var |-> [fb_var EXCEPT ![current_idx + 1] = r[2]],
              hint_var |-> [hint_var EXCEPT ![current_idx + 1] = hint_of(r[3])]]

\* mutant: answer and score are stored at self.current_idx - 1 (Python's -1 is
\* the last element)
evaluate_current_off_by_one ==
    /\ LET e == evaluated
           at == ((current_idx - 1) % num_slides) + 1
       IN
         /\ answers' = IF current_idx >= num_slides THEN answers
                       ELSE [answers EXCEPT ![at] = e.answers[current_idx + 1]]
         /\ scores' = IF current_idx >= num_slides THEN scores
                      ELSE [scores EXCEPT ![at] = e.scores[current_idx + 1]]
         /\ fb_var' = e.fb_var
         /\ hint_var' = e.hint_var
    /\ UNCHANGED <<questions, current_idx, txt, summary_text, lifted,
                   progress_var, btn_prev, btn_next>>

\* mutant: no early return; on the summary, which has no answer box, the last
\* question is evaluated with an empty answer
evaluate_current_blank_on_summary ==
    /\ IF current_idx >= num_slides /\ num_slides > 0
       THEN LET r == evaluate_answer(<<>>, slide_keywords(num_slides - 1)) IN
            /\ answers' = [answers EXCEPT ![num_slides] = <<>>]
            /\ scores' = [scores EXCEPT ![num_slides] = r[1]]
            /\ fb_var' = [fb_var EXCEPT ![num_slides] = r[2]]
            /\ hint_var' = [hint_var EXCEPT ![num_slides] = hint_of(r[3])]
       ELSE LET e == evaluated IN
            /\ answers' = e.answers
            /\ scores' = e.scores
            /\ fb_var' = e.fb_var
            /\ hint_var' = e.hint_var
    /\ UNCHANGED <<questions, current_idx, txt, summary_text, lifted,
                   progress_var, btn_prev, btn_next>>

\* "Submit Answer & Eval"
evaluate_current ==
    /\ LET e == evaluated IN
         /\ answers' = e.answers
         /\ scores' = e.scores
         /\ fb_var' = e.fb_var
         /\ hint_var' = e.hint_var
    /\ UNCHANGED <<questions, current_idx, txt, summary_text, lifted,
                   progress_var, btn_prev, btn_next>>

\* mutant: always moves to current_idx + 1, the summary included
next_slide_unbounded ==
    /\ LET e == evaluated IN
         /\ answers' = e.answers
         /\ scores' = e.scores
         /\ fb_var' = e.fb_var
         /\ hint_var' = e.hint_var
    /\ show_slide(current_idx + 1)
    /\ UNCHANGED <<questions, txt, summary_text>>

\* mutant: the else branch that moves to the summary is missing
next_slide_no_summary ==
    /\ LET e == evaluated IN
         /\ answers' = e.answers
         /\ scores' = e.scores
         /\ fb_var' = e.fb_var
         /\ hint_var' = e.hint_var
    /\ IF current_idx < num_slides - 1
       THEN show_slide(current_idx + 1)
       ELSE UNCHANGED <<lifted, progress_var, btn_prev, btn_next, current_idx>>
    /\ UNCHANGED <<questions, txt, summary_text>>

\* mutant: moves on without evaluating the answer
next_slide_no_evaluation ==
    /\ IF current_idx < num_slides - 1
       THEN show_slide(current_idx + 1) /\ UNCHANGED summary_text
       ELSE show_summary(answers, scores)
    /\ UNCHANGED <<questions, txt, answers, scores, fb_var, hint_var>>

\* mutant: the answer is evaluated only while none is stored for the question
next_slide_evaluates_once ==
    /\ LET e == IF current_idx < num_slides /\ answers[current_idx + 1] # <<>>
                THEN [answers |-> answers, scores |-> scores,
                      fb_var |-> fb_var, hint_var |-> hint_var]
                ELSE evaluated
       IN
         /\ answers' = e.answers
         /\ scores' = e.scores
         /\ fb_var' = e.fb_var
         /\ hint_var' = e.hint_var
    /\ IF current_idx < num_slides - 1
       THEN show_slide(current_idx + 1) /\ UNCHANGED summary_text
       ELSE show_summary(answers', scores')
    /\ UNCHANGED <<questions, txt>>

\* mutant: the summary text is built only while the placeholder is there
next_slide_summary_built_once ==
    /\ LET e == evaluated IN
         /\ answers' = e.answers
         /\ scores' = e.scores
         /\ fb_var' = e.fb_var
         /\ hint_var' = e.hint_var
    /\ IF current_idx < num_slides - 1
       THEN show_slide(current_idx + 1) /\ UNCHANGED summary_text
       ELSE IF summary_text = SUMMARY_PLACEHOLDER
            THEN show_summary(answers', scores')
            ELSE show_slide(num_slides) /\ UNCHANGED summary_text
    /\ UNCHANGED <<questions, txt>>

\* mutant: "if not ans: return", Next stays on a question whose box is empty
next_slide_needs_answer ==
    IF current_idx < num_slides /\ get_answer(current_idx) = <<>>
    THEN UNCHANGED app_vars
    ELSE /\ LET e == evaluated IN
              /\ answers' = e.answers
              /\ scores' = e.scores
              /\ fb_var' = e.fb_var
              /\ hint_var' = e.hint_var
         /\ IF current_idx < num_slides - 1
            THEN show_slide(current_idx + 1) /\ UNCHANGED summary_text
            ELSE show_summary(answers', scores')
         /\ UNCHANGED <<questions, txt>>

\* "Next"
next_slide ==
    /\ LET e == evaluated IN
         /\ answers' = e.answers
         /\ scores' = e.scores
         /\ fb_var' = e.fb_var
         /\ hint_var' = e.hint_var
    /\ IF current_idx < num_slides - 1
       THEN show_slide(current_idx + 1) /\ UNCHANGED summary_text
       ELSE show_summary(answers', scores')
    /\ UNCHANGED <<questions, txt>>

\* mutant: no way back from the summary
prev_slide_not_from_summary ==
    /\ IF current_idx > 0 /\ current_idx < num_slides
       THEN show_slide(current_idx - 1)
       ELSE UNCHANGED <<lifted, progress_var, btn_prev, btn_next, current_idx>>
    /\ UNCHANGED <<questions, answers, scores, txt, fb_var, hint_var, summary_text>>

\* mutant: the test current_idx > 0 is missing
prev_slide_unguarded ==
    /\ show_slide(current_idx - 1)
    /\ UNCHANGED <<questions, answers, scores, txt, fb_var, hint_var, summary_text>>

\* mutant: evaluates the answer before moving back, as next_slide does
prev_slide_evaluating ==
    /\ LET e == evaluated IN
         /\ answers' = e.answers
         /\ scores' = e.scores
         /\ fb_var' = e.fb_var
         /\ hint_var' = e.hint_var
    /\ IF current_idx > 0
       THEN show_slide(current_idx - 1)
       ELSE UNCHANGED <<lifted, progress_var, btn_prev, btn_next, current_idx>>
    /\ UNCHANGED <<questions, txt, summary_text>>

\* "Previous"
prev_slide ==
    /\ IF current_idx > 0
       THEN show_slide(current_idx - 1)
       ELSE UNCHANGED <<lifted, progress_var, btn_prev, btn_next, current_idx>>
    /\ UNCHANGED <<questions, answers, scores, txt, fb_var, hint_var, summary_text>>

-----------------------------------------------------------------------------
(* The user at the answer box of the slide on top *)

\* the texts the user leaves in an answer box (typed or pasted over what was there)
TYPED == { <<>>,
           <<" ", "G", "o", "a", "l", " ", "m", "u", "t", "a", "b", "l", "e", " ", "l", "o", "g", " ">>,
           <<"I", "m", "m", "u", "t", "a", "b", "l", "e">> }

\* the user replaces the text of the answer box of the question shown
edit_text(typed) ==
    /\ current_idx < num_slides
    /\ edits < MaxEdits
    /\ txt[current_idx + 1] # typed
    /\ txt' = [txt EXCEPT ![current_idx + 1] = typed]
    /\ edits' = edits + 1
    /\ UNCHANGED <<questions, current_idx, answers, scores, fb_var, hint_var,
                   summary_text, lifted, progress_var, btn_prev, btn_next>>

-----------------------------------------------------------------------------
(* The session *)

\* SmartInterviewApp.__init__ with the question list qs
constructed(qs) ==
    /\ questions = qs
    /\ current_idx = 0
    /\ answers = [i \in 1..Len(qs) |-> <<>>]
    /\ scores = [i \in 1..Len(qs) |-> 0]
    /\ txt = [i \in 1..Len(qs) |-> <<>>]
    /\ fb_var = [i \in 1..Len(qs) |-> ""]
    /\ hint_var = [i \in 1..Len(qs) |-> [label |-> "", words |-> <<>>]]
    /\ summary_text = SUMMARY_PLACEHOLDER
    /\ lifted = IF 0 < Len(qs) THEN <<"question", 0>> ELSE <<"summary", 0>>
    /\ progress_var = <<0, Len(qs)>>
    /\ btn_prev = DISABLED
    /\ btn_next = IF 0 < Len(qs) THEN NORMAL ELSE DISABLED

\* history: the callback that ran last, the index it ran at and the score
\* stored for that index before it ran
NO_EVENT == [op |-> "none", idx |-> 0, old_score |-> 0]

logged(op) ==
    event' = [op |-> op, idx |-> current_idx,
              old_score |-> IF current_idx < num_slides
                            THEN scores[current_idx + 1] ELSE 0]

ev_idle == ev_answer = <<>> /\ ev_keywords = <<>> /\ ev_result = <<>>

\* __init__ has returned: NUM_TECH and NUM_HR as the source sets them, the
\* locals of _prepare_questions gone
prep_done ==
    /\ cfg_num_tech = NUM_TECH
    /\ cfg_num_hr = NUM_HR
    /\ sampled_tech = <<>>
    /\ sampled_hr = <<>>
    /\ init_pc = "running"

\* the outcomes of the two random.sample calls explored in sessions: both
\* samples are their bank from position r + 1 on, in bank order, wrapping around
ROTATIONS == {0}

rotated_sample(name, n, k, r) ==
    { s \in random_sample(name, n, k) :
        \A i \in 1..k : s[i][2] = ((r + i - 1) % n) + 1 }

session_lists ==
    UNION { interleaved(
                rotated_sample("TECHNICAL_QUESTIONS", Len(TECHNICAL_QUESTIONS),
                               sample_size(NUM_TECH, TECHNICAL_QUESTIONS), r),
                rotated_sample("HR_QUESTIONS", Len(HR_QUESTIONS),
                               sample_size(NUM_HR, HR_QUESTIONS), r)) :
            r \in ROTATIONS }

Init ==
    /\ \E qs \in session_lists : constructed(qs)
    /\ event = NO_EVENT
    /\ edits = 0
    /\ ev_idle
    /\ prep_done

Next ==
    \/ evaluate_current /\ logged("evaluate_current")
            /\ UNCHANGED <<edits, ev_vars, prep_vars>>
    \/ next_slide /\ logged("next_slide") /\ UNCHANGED <<edits, ev_vars, prep_vars>>
    \/ prev_slide /\ logged("prev_slide") /\ UNCHANGED <<edits, ev_vars, prep_vars>>
    \/ \E typed \in TYPED :
            edit_text(typed) /\ logged("edit_text") /\ UNCHANGED <<ev_vars, prep_vars>>

Spec == Init /\ [][Next]_vars

\* the session of a user who keeps pressing Next: while a question is shown,
\* the step to the slide after it, which next_slide takes, is not put off for ever
go_forward == current_idx < num_slides /\ current_idx' = current_idx + 1

SpecFair == Spec /\ WF_current_idx(go_forward)

-----------------------------------------------------------------------------
(* evaluate_answer called on its own *)

EVAL_CHARS == {"a", "A", "b"}
EVAL_ANSWERS == {<<>>} \cup UNION { [1..n -> EVAL_CHARS] : n \in 1..MaxAnsLen }
EVAL_KEYWORDS == { <<>>, <<"a">>, <<"A">>, <<"a", "b">>, <<"B", "a">>, <<"b", "b">> }
EVAL_KEYWORD_LISTS ==
    {<<>>} \cup UNION { [1..n -> EVAL_KEYWORDS] : n \in 1..MaxKeywords }

\* no session: the application state of an empty question list
InitEval ==
    /\ constructed(<<>>)
    /\ event = NO_EVENT
    /\ edits = 0
    /\ ev_answer \in EVAL_ANSWERS
    /\ ev_keywords \in EVAL_KEYWORD_LISTS
    /\ ev_result = <<>>
    /\ prep_done

call_evaluate_answer ==
    /\ ev_result = <<>>
    /\ ev_result' = evaluate_answer(ev_answer, ev_keywords)
    /\ UNCHANGED <<app_vars, event, edits, ev_answer, ev_keywords, prep_vars>>

NextEval == call_evaluate_answer

SpecEval == InitEval /\ [][NextEval]_vars

-----------------------------------------------------------------------------
(* _prepare_questions called with NUM_TECH and NUM_HR set to other values *)

\* __init__ is about to call _prepare_questions; nothing of the session exists
InitPrep ==
    /\ constructed(<<>>)
    /\ event = NO_EVENT
    /\ edits = 0
    /\ ev_idle
    /\ cfg_num_tech \in 0..MaxRequested
    /\ cfg_num_hr \in 0..MaxRequested
    /\ sampled_tech = <<>>
    /\ sampled_hr = <<>>
    /\ init_pc = "prepare"

\* self._prepare_questions(); random.sample raises ValueError when asked for
\* more elements than the bank holds
call_prepare_questions ==
    /\ init_pc = "prepare"
    /\ LET k_tech == sample_size(cfg_num_tech, TECHNICAL_QUESTIONS)
           k_hr == sample_size(cfg_num_hr, HR_QUESTIONS)
       IN  IF k_tech > Len(TECHNICAL_QUESTIONS) \/ k_hr > Len(HR_QUESTIONS)
           THEN /\ init_pc' = "ValueError"
                /\ UNCHANGED <<questions, sampled_tech, sampled_hr>>
           ELSE \E tech_sample \in random_sample("TECHNICAL_QUESTIONS",
                                                 Len(TECHNICAL_QUESTIONS), k_tech),
                   hr_sample \in random_sample("HR_QUESTIONS",
                                               Len(HR_QUESTIONS), k_hr) :
                    /\ sampled_tech' = tech_sample
                    /\ sampled_hr' = hr_sample
                    /\ questions' = interleave_loop(tech_sample, hr_sample, 0, <<>>)
                    /\ init_pc' = "prepared"
    /\ UNCHANGED <<current_idx, answers, scores, txt, fb_var, hint_var, summary_text,
                   lifted, progress_var, btn_prev, btn_next, event, edits, ev_vars,
                   cfg_num_tech, cfg_num_hr>>

NextPrep == call_prepare_questions

SpecPrep == InitPrep /\ [][NextPrep]_vars

-----------------------------------------------------------------------------
(* What the claims speak of *)

\* the session is in Active(i) for i = current_idx, or in Summary
in_summary == current_idx = num_slides
in_active == current_idx >= 0 /\ current_idx < num_slides

\* the text staged for question i: what the slide hands over as the answer
staged(i) == get_answer(i)

\* sub occurs in s: s is some prefix, then sub, then some suffix
occurs_in(sub, s) ==
    \E i \in 0..Len(s) : \E j \in i..Len(s) : SubSeq(s, i + 1, j) = sub

\* the positions of K whose lowercased keyword occurs in the lowercased answer
matching_positions(A, K) ==
    { k \in 1..Len(K) : occurs_in(str_lower(K[k]), str_lower(A)) }

\* the keywords at those positions, in the order of K
matching_keywords(A, K) ==
    SelectSeq(K, LAMBDA kw : occurs_in(str_lower(kw), str_lower(A)))

\* the feedback tier a feedback string stands for
tier_of(fb) ==
    IF fb = FB_NEEDS THEN "None"
    ELSE IF fb = FB_GOOD THEN "Partial"
    ELSE IF fb = FB_EXCELLENT THEN "Full"
    ELSE "unknown"

ev_returned == ev_result # <<>>

\* C9: evaluate_answer returns as match count the number of positions of the
\* keyword list whose lowercased keyword is a substring of the lowercased answer
\* (a repeated keyword counts at each of its positions), as matched keywords
\* exactly the keywords at those positions in list order, and a count between
\* 0 and the length of the list.
C9_MatchCount ==
    ev_returned =>
        /\ ev_result[1] = Cardinality(matching_positions(ev_answer, ev_keywords))
        /\ ev_result[3] = matching_keywords(ev_answer, ev_keywords)
        /\ ev_result[1] >= 0
        /\ ev_result[1] <= Len(ev_keywords)

\* a call with an upper-case letter in the answer and a keyword that is twice
\* in the list and matched at both positions
C9_Witness ==
    /\ ev_returned
    /\ Len(ev_keywords) = 2
    /\ ev_keywords[1] = ev_keywords[2]
    /\ ev_keywords[1] # str_lower(ev_keywords[1])
    /\ ev_answer # str_lower(ev_answer)
    /\ ev_result[1] = 2
    /\ ev_result[3] = ev_keywords

\* C10: the feedback is the None tier when nothing matched, the Full tier when
\* every keyword matched and at least one did, and the Partial tier otherwise.
C10_FeedbackTier ==
    ev_returned =>
        tier_of(ev_result[2]) =
            IF ev_result[1] = 0 THEN "None"
            ELSE IF ev_result[1] = Len(ev_keywords) THEN "Full"
            ELSE "Partial"

\* a call that matched some keywords of the list and not all of them
C10_Witness ==
    /\ ev_returned
    /\ ev_result[1] > 0
    /\ ev_result[1] < Len(ev_keywords)
    /\ ev_result[2] = FB_GOOD

\* the match count of answer text A for question i
match_count(A, i) == Cardinality(matching_positions(A, slide_keywords(i)))

C2_IndexAndLengths ==
    /\ current_idx \in 0..num_slides
    /\ Len(answers) = Len(questions)
    /\ Len(scores) = Len(questions)
    /\ DOMAIN answers = 1..Len(questions)
    /\ DOMAIN scores = 1..Len(questions)

\* goNext ran in Summary, the upper end of the range
C2_Witness ==
    /\ event.op = "next_slide"
    /\ event.idx = num_slides
    /\ in_summary
    /\ num_slides > 0

\* C3: goNext moves forward by one: from Active(i) with i < N - 1 to
\* Active(i + 1), from Active(N - 1) to Summary, and in Summary it stays there.
C3_NextByOne ==
    event.op = "next_slide" =>
        /\ event.idx < num_slides - 1 => current_idx = event.idx + 1
        /\ event.idx = num_slides - 1 => in_summary
        /\ event.idx = num_slides => in_summary
        /\ current_idx <= num_slides

\* goNext ran at the last question
C3_Witness ==
    /\ event.op = "next_slide"
    /\ event.idx = num_slides - 1
    /\ in_summary

\* C4: goPrevious moves from Active(i) with i > 0 to Active(i - 1); from
\* Active(0) it changes nothing of the session and the index stays 0.
C4_PreviousByOne ==
    [][event'.op = "prev_slide" =>
         /\ (in_active /\ current_idx > 0) => current_idx' = current_idx - 1
         /\ current_idx = 0 => UNCHANGED app_vars
         /\ current_idx' >= 0]_vars

\* goPrevious ran at the first question of a session that holds a scored answer
C4_Witness ==
    /\ event.op = "prev_slide"
    /\ event.idx = 0
    /\ current_idx = 0
    /\ scores[1] > 0
    /\ answers[1] # <<>>

\* C5: goNext in Active(i) with staged text t leaves answers[i] = t and
\* scores[i] = the match count of t, the empty text included, and writes the
\* record of no other index.
C5_NextEvaluates ==
    [][(event'.op = "next_slide" /\ in_active) =>
         /\ answers'[current_idx + 1] = staged(current_idx)
         /\ scores'[current_idx + 1] = match_count(staged(current_idx), current_idx)
         /\ \A j \in 0..(num_slides - 1) :
              j # current_idx =>
                  /\ answers'[j + 1] = answers[j + 1]
                  /\ scores'[j + 1] = scores[j + 1]]_vars

\* goNext ran with the empty text staged for a question whose score was not 0
C5_Witness ==
    /\ event.op = "next_slide"
    /\ event.idx < num_slides
    /\ event.old_score > 0
    /\ staged(event.idx) = <<>>
    /\ answers[event.idx + 1] = <<>>
    /\ scores[event.idx + 1] = 0

\* C6: after submitAnswer in Active(i) the record of question i (answer text,
\* match count, matched keywords, feedback) is the evaluation of the text staged
\* at that call alone, whatever was submitted before.
C6_Overwrite ==
    (event.op = "evaluate_current" /\ event.idx < num_slides) =>
        LET i == event.idx
            t == staged(i)
            K == slide_keywords(i)
        IN  /\ answers[i + 1] = t
            /\ scores[i + 1] = Cardinality(matching_positions(t, K))
            /\ hint_var[i + 1] = hint_of(matching_keywords(t, K))
            /\ tier_of(fb_var[i + 1]) =
                   IF scores[i + 1] = 0 THEN "None"
                   ELSE IF scores[i + 1] = Len(K) THEN "Full"
                   ELSE "Partial"

\* submitAnswer ran on a question that had another score from an earlier text,
\* and the new text matches as well
C6_Witness ==
    /\ event.op = "evaluate_current"
    /\ event.idx < num_slides
    /\ event.old_score > 0
    /\ scores[event.idx + 1] > 0
    /\ scores[event.idx + 1] # event.old_score

\* C7: submitAnswer in Active(i) leaves current_idx and the answers and scores
\* of every other index unchanged.
C7_SubmitFrame ==
    [][(event'.op = "evaluate_current" /\ in_active) =>
         /\ current_idx' = current_idx
         /\ \A j \in 0..(num_slides - 1) :
              j # current_idx =>
                  /\ answers'[j + 1] = answers[j + 1]
                  /\ scores'[j + 1] = scores[j + 1]]_vars

\* submitAnswer ran and scored while another question holds a scored answer
C7_Witness ==
    /\ event.op = "evaluate_current"
    /\ event.idx < num_slides
    /\ scores[event.idx + 1] > 0
    /\ \E j \in 0..(num_slides - 1) : j # event.idx /\ scores[j + 1] > 0

\* C8: the answer or score of question i changes only in a submitAnswer or
\* goNext step taken while current_idx = i; goPrevious changes no answer and no
\* score.
C8_RecordChangesOnlyOnEvaluation ==
    [][/\ \A i \in 0..(num_slides - 1) :
            (answers'[i + 1] # answers[i + 1] \/ scores'[i + 1] # scores[i + 1]) =>
                /\ event'.op \in {"evaluate_current", "next_slide"}
                /\ current_idx = i
       /\ event'.op = "prev_slide" => (answers' = answers /\ scores' = scores)]_vars

\* goPrevious ran while the text staged for the question shown differed from
\* its stored answer
C8_Witness ==
    /\ event.op = "prev_slide"
    /\ event.idx > 0
    /\ event.idx < num_slides
    /\ staged(event.idx) # answers[event.idx + 1]
    /\ match_count(staged(event.idx), event.idx) # scores[event.idx + 1]

RECURSIVE sum_over(_, _)
sum_over(f, S) ==
    IF S = {} THEN 0
    ELSE LET x == CHOOSE y \in S : TRUE IN f[x] + sum_over(f, S \ {x})

\* C12: in every reachable state the report built from the stored answers and
\* scores has a total score equal to the sum of the per-category scores and to
\* the sum of the stored scores, and a total possible equal to the sum of the
\* per-category possibles and to the number of keywords of all questions.
C12_ReportTotals ==
    LET report == build_summary(answers, scores)
        cats == DOMAIN report.section_wise
        qs == 1..Len(questions)
    IN  /\ report.total_score =
               sum_over([k \in cats |-> report.section_wise[k].score], cats)
        /\ report.total_score = sum_over([i \in qs |-> scores[i]], qs)
        /\ report.total_keywords =
               sum_over([k \in cats |-> report.section_wise[k].possible], cats)
        /\ report.total_keywords =
               sum_over([i \in qs |-> Len(slide_keywords(i - 1))], qs)
        /\ \A k, l \in cats :
               report.section_wise[k].sect = report.section_wise[l].sect => k = l

\* the summary is shown with a score in each of the two categories
C12_Witness ==
    /\ in_summary
    /\ summary_text.kind = "report"
    /\ Len(summary_text.section_wise) = 2
    /\ \A k \in 1..2 : summary_text.section_wise[k].score > 0
    /\ summary_text.total_score >= 3

\* the part of the progress bar that is filled: the value of progress_var over
\* the bar's maximum, 100, as the fraction <<numerator, denominator>>
PROGRESS_MAXIMUM == 100
progress_fraction == <<progress_var[1], PROGRESS_MAXIMUM * progress_var[2]>>

\* fractions with positive denominators compared
frac_eq(a, b) == a[1] * b[2] = b[1] * a[2]
frac_le(a, b) == a[1] * b[2] <= b[1] * a[2]

\* C13: the progress value is current_idx / N in every reachable state, lies
\* in [0, 1], is 0 in the initial state Active(0), is exactly 1 in Summary, and
\* no goNext step decreases it.
C13_Progress ==
    /\ current_idx = 0 /\ frac_eq(progress_fraction, <<0, 1>>)
    /\ [](/\ progress_fraction[2] > 0
          /\ frac_eq(progress_fraction, <<current_idx, num_slides>>)
          /\ frac_le(<<0, 1>>, progress_fraction)
          /\ frac_le(progress_fraction, <<1, 1>>)
          /\ in_summary => frac_eq(progress_fraction, <<1, 1>>))
    /\ [][event'.op = "next_slide" =>
            /\ frac_le(progress_fraction, progress_fraction')
            /\ in_active => ~frac_le(progress_fraction', progress_fraction)]_vars

\* goNext ran at the last question of a session in which an answer was typed,
\* and the bar is full
C13_Witness ==
    /\ event.op = "next_slide"
    /\ event.idx = num_slides - 1
    /\ in_summary
    /\ edits > 0
    /\ progress_var = <<num_slides * 100, num_slides>>
    /\ frac_eq(progress_fraction, <<1, 1>>)

\* _prepare_questions has returned
prepared == init_pc = "prepared"

\* the number of positions of the list seq that hold x
count_of(x, seq) == Cardinality({ p \in 1..Len(seq) : seq[p] = x })

\* C14: the list built from a Technical sample of size a and an HR sample of
\* size b has length a + b, holds every sampled question exactly once, pairs the
\* r-th Technical question with the r-th HR question right after it for every
\* round r < min(a, b), and ends with the rest of the longer sample in order.
C14_Interleaving ==
    prepared =>
        LET a == Len(sampled_tech)
            b == Len(sampled_hr)
            m == IF a < b THEN a ELSE b
        IN  /\ Len(questions) = a + b
            /\ \A i \in 1..a : count_of(<<"Technical", sampled_tech[i]>>, questions) = 1
            /\ \A i \in 1..b : count_of(<<"HR", sampled_hr[i]>>, questions) = 1
            /\ \A r \in 0..(m - 1) :
                  /\ questions[2 * r + 1] = <<"Technical", sampled_tech[r + 1]>>
                  /\ questions[2 * r + 2] = <<"HR", sampled_hr[r + 1]>>
            /\ \A j \in 1..(a - m) :
                  questions[2 * m + j] = <<"Technical", sampled_tech[m + j]>>
            /\ \A j \in 1..(b - m) :
                  questions[2 * m + j] = <<"HR", sampled_hr[m + j]>>

\* a list built from one Technical question and three HR questions
C14_Witness ==
    /\ prepared
    /\ Len(sampled_tech) = 1
    /\ Len(sampled_hr) = 3
    /\ Len(questions) = 4
    /\ questions[4][1] = "HR"

\* more questions of a category are asked for than its bank holds
tech_exceeds == cfg_num_tech > Len(TECHNICAL_QUESTIONS)
hr_exceeds == cfg_num_hr > Len(HR_QUESTIONS)

\* C15 as claimed: when the size asked of a category exceeds the size of its
\* bank, session creation fails with InsufficientQuestions and no question list
\* is produced.
C15_InsufficientQuestionsFails ==
    (tech_exceeds \/ hr_exceeds) =>
        /\ init_pc \in {"prepare", "InsufficientQuestions"}
        /\ questions = <<>>

\* C15 as amended: session creation never fails; each sample has the size
\* asked for or, when that exceeds the bank, the size of the bank, and then the
\* list holds every question of that bank exactly once.
C15_ClampedToCatalog ==
    /\ init_pc \in {"prepare", "prepared"}
    /\ init_pc = "prepare" => ENABLED call_prepare_questions
    /\ prepared =>
          /\ Len(sampled_tech) =
                 (IF tech_exceeds THEN Len(TECHNICAL_QUESTIONS) ELSE cfg_num_tech)
          /\ Len(sampled_hr) = (IF hr_exceeds THEN Len(HR_QUESTIONS) ELSE cfg_num_hr)
          /\ Len(questions) = Len(sampled_tech) + Len(sampled_hr)
          /\ tech_exceeds =>
                 \A p \in 1..Len(TECHNICAL_QUESTIONS) :
                     count_of(<<"Technical", <<"TECHNICAL_QUESTIONS", p>>>>, questions) = 1
          /\ hr_exceeds =>
                 \A p \in 1..Len(HR_QUESTIONS) :
                     count_of(<<"HR", <<"HR_QUESTIONS", p>>>>, questions) = 1

\* a list was built although more questions than the bank holds were asked of
\* the Technical bank, and fewer than it holds of the HR bank
C15_Witness ==
    /\ prepared
    /\ tech_exceeds
    /\ cfg_num_hr = 1
    /\ Len(questions) = Len(TECHNICAL_QUESTIONS) + 1
    /\ Len(questions) < cfg_num_tech + cfg_num_hr

\* C16: submitAnswer invoked in Summary stores no text, changes no score, writes
\* no feedback and leaves current_idx = N.
C16_SubmitInSummary ==
    [][(event'.op = "evaluate_current" /\ in_summary) =>
         /\ answers' = answers
         /\ scores' = scores
         /\ fb_var' = fb_var
         /\ hint_var' = hint_var
         /\ txt' = txt
         /\ summary_text' = summary_text
         /\ current_idx' = num_slides
         /\ in_summary']_vars

\* submitAnswer ran in Summary of a session whose last question holds a scored
\* answer
C16_Witness ==
    /\ event.op = "evaluate_current"
    /\ event.idx = num_slides
    /\ in_summary
    /\ num_slides > 0
    /\ answers[num_slides] # <<>>
    /\ scores[num_slides] > 0

\* C17: whenever the session is in Summary, the stored answer of every question
\* is the text staged for it and its stored score is the match count of that
\* text, whatever edits, submitAnswer, goNext and goPrevious led there.
C17_SummaryScoresStagedTexts ==
    in_summary =>
        \A j \in 0..(num_slides - 1) :
            /\ answers[j + 1] = staged(j)
            /\ scores[j + 1] = match_count(staged(j), j)

\* Summary was entered after two edits, with a scored answer whose box holds
\* more than the stored text (surrounding blanks) and another scored answer
C17_Witness ==
    /\ in_summary
    /\ event.op = "next_slide"
    /\ edits >= 2
    /\ \E j, k \in 1..num_slides :
          /\ j # k
          /\ scores[j] > 0
          /\ scores[k] > 0
          /\ txt[j] # answers[j]

\* C18: in every reachable state the stored score of every question is the
\* match count of its stored answer, before the first evaluation too (empty
\* answer, score 0), and so lies between 0 and the number of its keywords.
C18_ScoreOfStoredAnswer ==
    \A i \in 0..(num_slides - 1) :
        /\ scores[i + 1] = match_count(answers[i + 1], i)
        /\ scores[i + 1] >= 0
        /\ scores[i + 1] <= Len(slide_keywords(i))

\* one stored answer matches every keyword of its question, another stored
\* answer matches none of its question, and a third question was never answered
C18_Witness ==
    \E i, j, k \in 0..(num_slides - 1) :
        /\ answers[i + 1] # <<>>
        /\ scores[i + 1] = Len(slide_keywords(i))
        /\ answers[j + 1] # <<>>
        /\ scores[j + 1] = 0
        /\ answers[k + 1] = <<>>
        /\ scores[k + 1] = 0
        /\ fb_var[k + 1] = ""

\* C19: whenever the session is in Summary, the report shown is the report of
\* the answers and scores stored now: its total is the sum of the stored scores
\* and every question is listed with its stored score and its stored answer (or
\* the placeholder when that is empty).
C19_SummaryShownIsCurrent ==
    in_summary =>
        /\ lifted[1] = "summary"
        /\ summary_text.kind = "report"
        /\ summary_text = build_summary(answers, scores)
        /\ summary_text.total_score =
               sum_over([i \in 1..num_slides |-> scores[i]], 1..num_slides)
        /\ Len(summary_text.detail) = num_slides
        /\ \A i \in 1..num_slides :
               /\ summary_text.detail[i].matched = scores[i]
               /\ summary_text.detail[i].ans =
                      (IF answers[i] = <<>> THEN NO_ANSWER ELSE answers[i])

\* Summary was entered from the last question with its answer emptied after it
\* had been scored: the report lists it as not answered, with score 0
C19_Witness ==
    /\ in_summary
    /\ event.op = "next_slide"
    /\ event.idx = num_slides - 1
    /\ event.old_score > 0
    /\ scores[num_slides] = 0
    /\ summary_text.kind = "report"
    /\ summary_text.detail[num_slides].matched = 0
    /\ summary_text.detail[num_slides].ans = NO_ANSWER

\* C20: in every run in which goNext keeps being invoked and, from some point
\* on, goPrevious is not, the session ends in Summary and stays there; every
\* goNext step in Active(i) brings Summary one step nearer, so Summary is
\* reached after N - i such steps.
C20_NextReachesSummary ==
    /\ <>[](event.op # "prev_slide") => <>[]in_summary
    /\ [][current_idx' = current_idx + 1 => event'.op = "next_slide"]_vars
    /\ [][(event'.op = "next_slide" /\ in_active) =>
            num_slides - current_idx' = (num_slides - current_idx) - 1]_vars

\* Summary reached from Active(0) by goNext steps alone, nothing typed
C20_Witness ==
    /\ in_summary
    /\ event.op = "next_slide"
    /\ event.idx = num_slides - 1
    /\ edits = 0
    /\ \A i \in 1..num_slides : fb_var[i] = FB_NEEDS /\ answers[i] = <<>>

====
